---- MODULE Spec2Model ----
(***************************************************************************)
(* Model of the bulk-comment pipeline of src/src/App.tsx: the React state  *)
(* of the App component, its event handlers, the file import / export      *)
(* text format and the simulated bulk run (startBulk).                     *)
(*                                                                         *)
(* Text is modelled as a sequence of one-character strings, so that        *)
(* String.split, String.trim and Array.join are computed, not assumed.     *)
(* Every handler segment between two awaits is one atomic action, as the   *)
(* JavaScript event loop runs it.                                          *)
(***************************************************************************)
EXTENDS Integers, Sequences, FiniteSets, TLC

VARIABLES
    searchResults,          \* useState<BlogResult[]>      (line 57)
    isSearching,            \* useState(false)             (line 58)
    targetUrl,              \* useState('')                (line 61)
    keywords,               \* useState('')                (line 62)
    generatedCommentText,   \* useState('')                (line 63)
    isGeneratingComment,    \* useState(false)             (line 65)
    bulkTargets,            \* useState<BlogResult[]>      (line 68)
    isBulking,              \* useState(false)             (line 69)
    logs,                   \* useState<LogEntry[]>        (line 70)
    progress,               \* useState(0)                 (line 71)
    error,                  \* useState<string | null>     (line 51)
    loops,                  \* the startBulk invocations suspended at their await
    fileText,               \* text of the file last read by the FileReader
    exported,               \* content of the Blob last built by exportToTxt
    loopLength,             \* bulkTargets.length of the run of SpecProgress
    loopIndex,              \* the loop variable i of the run of SpecProgress
    storage,                \* localStorage item 'backlink_settings'
    isSaving                \* useState(false)             (line 64)

vars == <<searchResults, isSearching, targetUrl, keywords, generatedCommentText,
          isGeneratingComment, bulkTargets, isBulking, logs, progress, error,
          loops, fileText, exported, loopLength, loopIndex,
                   storage, isSaving>>

(***************************************************************************)
(* Bounds                                                                  *)
(***************************************************************************)
MaxResults == 2      \* longest list the Blog Finder returns in Spec
MaxExport == 2       \* longest exported list in SpecImport
MaxFieldLen == 1     \* longest title / url of an exported list in SpecImport
MaxFileLen == 3      \* longest uploaded text in SpecImport
MaxTotal == 200      \* longest target list in SpecProgress

(***************************************************************************)
(* Text                                                                    *)
(***************************************************************************)
Char == {"a", "|", "\n", " "}
Whitespace == {" ", "\n"}
Null == "null"
NoFile == <<"nofile">>

Str(n) == UNION {[1..m -> Char] : m \in 0..n}

BoundedSeq(S, n) == UNION {[1..m -> S] : m \in 0..n}

\* String.prototype.split with a one-character separator
RECURSIVE Split(_, _)
Split(s, d) ==
    IF \E k \in 1..Len(s) : s[k] = d
    THEN LET k == CHOOSE x \in 1..Len(s) :
                      s[x] = d /\ \A y \in 1..(x - 1) : s[y] # d
         IN  <<SubSeq(s, 1, k - 1)>> \o Split(SubSeq(s, k + 1, Len(s)), d)
    ELSE <<s>>

\* Array.prototype.join with a one-character separator
RECURSIVE Join(_, _)
Join(ss, d) ==
    IF Len(ss) = 0 THEN <<>>
    ELSE IF Len(ss) = 1 THEN ss[1]
    ELSE ss[1] \o <<d>> \o Join(Tail(ss), d)

\* l.trim() is truthy: some character is not white space
TrimTruthy(l) == \E k \in 1..Len(l) : l[k] \notin Whitespace

\* lines.filter(l => l.trim())
RECURSIVE FilterTrimTruthy(_)
FilterTrimTruthy(ss) ==
    IF Len(ss) = 0 THEN <<>>
    ELSE (IF TrimTruthy(ss[1]) THEN <<ss[1]>> ELSE <<>>) \o FilterTrimTruthy(Tail(ss))

\* 'Postingan Blog'
Placeholder == <<"P", "o", "s", "t", "i", "n", "g", "a", "n", " ", "B", "l", "o", "g">>

\* variant: title taken as split, without || 'Postingan Blog'
ImportLineNoDefault(line) ==
    LET parts == Split(line, "|")
        urlTruthy == Len(parts) >= 2 /\ parts[2] # <<>>
    IN  [title |-> parts[1],
         url   |-> IF urlTruthy THEN parts[2] ELSE line]

\* line => { const [title, url] = line.split('|'); return {title: title || ..., url: url || line} }
ImportLine(line) ==
    LET parts == Split(line, "|")
        title == parts[1]
        urlTruthy == Len(parts) >= 2 /\ parts[2] # <<>>
    IN  [title |-> IF title # <<>> THEN title ELSE Placeholder,
         url   |-> IF urlTruthy THEN parts[2] ELSE line]

\* text.split('\n').filter(l => l.trim()).map(...)
ImportText(text) ==
    LET lines == FilterTrimTruthy(Split(text, "\n"))
    IN  [k \in 1..Len(lines) |-> ImportLine(lines[k])]

\* searchResults.map(r => `${r.title}|${r.url}`).join('\n')
ExportContent(list) ==
    Join([k \in 1..Len(list) |-> list[k].title \o <<"|">> \o list[k].url], "\n")

(***************************************************************************)
(* Math.round(((i + 1) / bulkTargets.length) * 100), with k = i + 1 and    *)
(* n = bulkTargets.length.  Math.round rounds halves up.  The quotient and *)
(* the product are IEEE-754 doubles: when 100 * k / n is exactly a half,   *)
(* the double product is either that half or the double just below it.     *)
(* DoubleBelowHalf lists every pair with n <= 256 for which it is below    *)
(* (23 / 40 * 100 evaluates to 57.49999999999999), where Math.round        *)
(* returns the lower integer.  Everywhere else the double is within 1e-13  *)
(* of the exact value and at least 1 / (2 * n) away from a half, so        *)
(* Math.round of it is the exact rounding.                                 *)
(***************************************************************************)
DoubleBelowHalf ==
    {<<23, 40>>, <<46, 80>>, <<69, 120>>, <<92, 160>>, <<29, 200>>,
     <<57, 200>>, <<113, 200>>, <<115, 200>>, <<138, 240>>}

RoundHalfUp(k, n) == (200 * k + n) \div (2 * n)

\* variant: the percentage truncated, Math.floor for Math.round
ProgressFloor(k, n) == (100 * k) \div n

Progress(k, n) ==
    IF <<k, n>> \in DoubleBelowHalf THEN RoundHalfUp(k, n) - 1 ELSE RoundHalfUp(k, n)

(***************************************************************************)
(* Values                                                                  *)
(***************************************************************************)
ErrEmptyTargets == "Daftar target kosong."
ErrNoComment == "Teks komentar belum diatur di Tab 2."
ErrNoSearchYet == "Cari blog terlebih dahulu di Tab 1."
ErrNotFound == "Tidak ada blog yang ditemukan."
ErrSearch == "Gagal mencari blog."
ErrGenerate == "Gagal menghasilkan teks komentar."
ErrSettings == "Harap isi URL target dan kata kunci terlebih dahulu."

\* what the user can type into the two settings fields
FieldValues == {"", "x"}
\* response.text of generateComment: a text, an empty text or undefined
GenerateResults == {"comment", "", Null}

\* searchBlogs: the title is never empty (title || "Postingan Blog"), the
\* url is whatever the service returned
FinderTitles == {<<"a">>}
FinderUrls == {<<"a">>, <<"a", "a">>}
FinderHits == {[title |-> t, url |-> u] : t \in FinderTitles, u \in FinderUrls}
FinderLists == BoundedSeq(FinderHits, MaxResults)

\* the files the user uploads in Spec and SpecHandler: an empty file, a line
\* without '|', a line with an empty title, a line with title and url, and
\* two lines (SpecImport reads every text up to MaxFileLen)
UploadTexts ==
    {<<>>,
     <<"a">>,
     <<"|", "a">>,
     <<"a", "|", "a", "a">>,
     <<"a", "\n", "|", "a", "a">>}

\* the texts read in SpecImport and SpecPopulate
FileTexts == Str(MaxFileLen)

\* the LogEntry of lines 196-202 (id and timestamp are display data)
NewLog(target, isSuccess) ==
    [url     |-> target.url,
     status  |-> IF isSuccess THEN "success" ELSE "fail",
     message |-> IF isSuccess THEN "Komentar berhasil disiapkan (Siap Paste)"
                              ELSE "Gagal mengakses kolom komentar"]

RemoveAt(seq, j) == SubSeq(seq, 1, j - 1) \o SubSeq(seq, j + 1, Len(seq))

(***************************************************************************)
(* Initial state: the useState defaults, then the settings-loading effect  *)
(* (lines 75-87) applied to what localStorage holds.                       *)
(***************************************************************************)
\* localStorage.getItem('backlink_settings'): null, a text JSON.parse
\* rejects, or the text of an object written by saveSettings
StoredBlobs ==
    {[kind |-> "absent"], [kind |-> "malformed"]}
        \cup {[kind |-> "object", url |-> "x", kw |-> "x", comment |-> c] :
                 c \in {"", "comment"}}

\* a field of a stored object that is absent (or null, false, 0), and one
\* that holds a truthy value that is not a string, such as the number 5
Undefined == "undefined"
NotAString == "number 5"
StoredFieldValues == {Undefined, "", "x", NotAString}

\* every kind of stored item: none, a text JSON.parse rejects, the JSON
\* text null, the JSON text of a number, string or boolean, and the JSON
\* text of an object with any of the three fields
AllBlobs ==
    {[kind |-> k] : k \in {"absent", "malformed", "null", "primitive"}}
        \cup {[kind |-> "object", url |-> u, kw |-> k, comment |-> c] :
                 u \in StoredFieldValues, k \in StoredFieldValues,
                 c \in StoredFieldValues}

\* v || ''
OrEmpty(v) == IF v \in {Undefined, ""} THEN "" ELSE v

\* the three fields after the effect: nothing is set when there is no item,
\* when JSON.parse throws or when destructuring null throws; a number,
\* string or boolean has none of the three properties
LoadSettings(saved) ==
    IF saved.kind \in {"absent", "malformed", "null"}
    THEN [url |-> "", kw |-> "", comment |-> ""]
    ELSE IF saved.kind = "primitive"
    THEN [url |-> OrEmpty(Undefined), kw |-> OrEmpty(Undefined),
          comment |-> OrEmpty(Undefined)]
    ELSE [url |-> OrEmpty(saved.url), kw |-> OrEmpty(saved.kw),
          comment |-> OrEmpty(saved.comment)]

InitWith(results, blobs, lengths) ==
    /\ searchResults = results
    /\ isSearching = FALSE
    /\ \E saved \in blobs :
          /\ targetUrl = LoadSettings(saved).url
          /\ keywords = LoadSettings(saved).kw
          /\ generatedCommentText = LoadSettings(saved).comment
          /\ storage = saved
    /\ isSaving = FALSE
    /\ isGeneratingComment = FALSE
    /\ bulkTargets = <<>>
    /\ isBulking = FALSE
    /\ logs = <<>>
    /\ progress = 0
    /\ error = Null
    /\ loops = <<>>
    /\ fileText = NoFile
    /\ exported = NoFile
    /\ loopLength \in lengths
    /\ loopIndex = 0

Init == InitWith(<<>>, StoredBlobs, {0})

(***************************************************************************)
(* Blog Finder and settings handlers                                       *)
(***************************************************************************)
\* handleSearch up to its await (the submit button is disabled while isSearching)
handleSearch ==
    /\ ~isSearching
    /\ isSearching' = TRUE
    /\ error' = Null
    /\ UNCHANGED <<searchResults, targetUrl, keywords, generatedCommentText,
                   isGeneratingComment, bulkTargets, isBulking, logs, progress,
                   loops, fileText, exported, loopLength, loopIndex,
                   storage, isSaving>>

\* handleSearch after its await: searchBlogs resolved with one of lists, or rejected
handleSearchDoneWith(lists) ==
    /\ isSearching
    /\ \/ \E results \in lists :
            /\ searchResults' = results
            /\ error' = IF Len(results) = 0 THEN ErrNotFound ELSE error
       \/ /\ error' = ErrSearch
          /\ UNCHANGED searchResults
    /\ isSearching' = FALSE
    /\ UNCHANGED <<targetUrl, keywords, generatedCommentText,
                   isGeneratingComment, bulkTargets, isBulking, logs, progress,
                   loops, fileText, exported, loopLength, loopIndex,
                   storage, isSaving>>

handleSearchDone == handleSearchDoneWith(FinderLists)

setTargetUrl ==
    /\ \E v \in FieldValues : v # targetUrl /\ targetUrl' = v
    /\ UNCHANGED <<searchResults, isSearching, keywords, generatedCommentText,
                   isGeneratingComment, bulkTargets, isBulking, logs, progress,
                   error, loops, fileText, exported, loopLength, loopIndex,
                   storage, isSaving>>

setKeywords ==
    /\ \E v \in FieldValues : v # keywords /\ keywords' = v
    /\ UNCHANGED <<searchResults, isSearching, targetUrl, generatedCommentText,
                   isGeneratingComment, bulkTargets, isBulking, logs, progress,
                   error, loops, fileText, exported, loopLength, loopIndex,
                   storage, isSaving>>

\* handleGenerateCommentText up to its await
handleGenerateCommentText ==
    /\ ~isGeneratingComment
    /\ IF targetUrl = "" \/ keywords = ""
       THEN /\ error' = ErrSettings
            /\ UNCHANGED isGeneratingComment
       ELSE /\ isGeneratingComment' = TRUE
            /\ error' = Null
    /\ UNCHANGED <<searchResults, isSearching, targetUrl, keywords,
                   generatedCommentText, bulkTargets, isBulking, logs, progress,
                   loops, fileText, exported, loopLength, loopIndex,
                   storage, isSaving>>

\* handleGenerateCommentText after its await: generateComment resolved or rejected
handleGenerateCommentDone ==
    /\ isGeneratingComment
    /\ \/ \E result \in GenerateResults :
            /\ generatedCommentText' = IF result = Null THEN "" ELSE result
            /\ UNCHANGED error
       \/ /\ error' = ErrGenerate
          /\ UNCHANGED generatedCommentText
    /\ isGeneratingComment' = FALSE
    /\ UNCHANGED <<searchResults, isSearching, targetUrl, keywords,
                   bulkTargets, isBulking, logs, progress,
                   loops, fileText, exported, loopLength, loopIndex,
                   storage, isSaving>>

(***************************************************************************)
(* Target list handlers                                                    *)
(***************************************************************************)
\* variant: setBulkTargets(prev => [...prev, ...searchResults])
importFromFinderAppends ==
    /\ IF Len(searchResults) = 0
       THEN /\ error' = ErrNoSearchYet
            /\ UNCHANGED bulkTargets
       ELSE /\ bulkTargets' = bulkTargets \o searchResults
            /\ UNCHANGED error
    /\ UNCHANGED <<searchResults, isSearching, targetUrl, keywords,
                   generatedCommentText, isGeneratingComment, isBulking, logs,
                   progress, loops, fileText, exported, loopLength, loopIndex,
                   storage, isSaving>>

importFromFinder ==
    /\ IF Len(searchResults) = 0
       THEN /\ error' = ErrNoSearchYet
            /\ UNCHANGED bulkTargets
       ELSE /\ bulkTargets' = searchResults
            /\ UNCHANGED error
    /\ UNCHANGED <<searchResults, isSearching, targetUrl, keywords,
                   generatedCommentText, isGeneratingComment, isBulking, logs,
                   progress, loops, fileText, exported, loopLength, loopIndex,
                   storage, isSaving>>

\* reader.onload of handleFileUpload, for a file whose content is text
handleFileUpload(text) ==
    /\ bulkTargets' = ImportText(text)
    /\ UNCHANGED <<searchResults, isSearching, targetUrl, keywords,
                   generatedCommentText, isGeneratingComment, isBulking, logs,
                   progress, error, loops, exported, loopLength, loopIndex,
                   storage, isSaving>>

UploadFile ==
    \E text \in UploadTexts : handleFileUpload(text) /\ UNCHANGED fileText

(***************************************************************************)
(* Bulk Runner                                                             *)
(***************************************************************************)
\* variant: setLogs([]) and setProgress(0) hoisted above the precondition checks
startBulkClearsFirst ==
    /\ logs' = <<>>
    /\ progress' = 0
    /\ IF Len(bulkTargets) = 0
       THEN /\ error' = ErrEmptyTargets
            /\ UNCHANGED <<isBulking, loops>>
       ELSE IF generatedCommentText = ""
       THEN /\ error' = ErrNoComment
            /\ UNCHANGED <<isBulking, loops>>
       ELSE /\ isBulking' = TRUE
            /\ loops' = Append(loops, [targets |-> bulkTargets, i |-> 0])
            /\ UNCHANGED error
    /\ UNCHANGED <<searchResults, isSearching, targetUrl, keywords,
                   generatedCommentText, isGeneratingComment, bulkTargets,
                   fileText, exported, loopLength, loopIndex,
                   storage, isSaving>>

\* variant: the check of generatedCommentText left out
startBulkNoCommentCheck ==
    /\ IF Len(bulkTargets) = 0
       THEN /\ error' = ErrEmptyTargets
            /\ UNCHANGED <<isBulking, logs, progress, loops>>
       ELSE /\ isBulking' = TRUE
            /\ logs' = <<>>
            /\ progress' = 0
            /\ loops' = Append(loops, [targets |-> bulkTargets, i |-> 0])
            /\ UNCHANGED error
    /\ UNCHANGED <<searchResults, isSearching, targetUrl, keywords,
                   generatedCommentText, isGeneratingComment, bulkTargets,
                   fileText, exported, loopLength, loopIndex,
                   storage, isSaving>>

\* variant: setLogs([]) left out
startBulkKeepsLogs ==
    /\ IF Len(bulkTargets) = 0
       THEN /\ error' = ErrEmptyTargets
            /\ UNCHANGED <<isBulking, logs, progress, loops>>
       ELSE IF generatedCommentText = ""
       THEN /\ error' = ErrNoComment
            /\ UNCHANGED <<isBulking, logs, progress, loops>>
       ELSE /\ isBulking' = TRUE
            /\ progress' = 0
            /\ loops' = Append(loops, [targets |-> bulkTargets, i |-> 0])
            /\ UNCHANGED <<error, logs>>
    /\ UNCHANGED <<searchResults, isSearching, targetUrl, keywords,
                   generatedCommentText, isGeneratingComment, bulkTargets,
                   fileText, exported, loopLength, loopIndex,
                   storage, isSaving>>

\* startBulk up to its first await
startBulk ==
    /\ IF Len(bulkTargets) = 0
       THEN /\ error' = ErrEmptyTargets
            /\ UNCHANGED <<isBulking, logs, progress, loops>>
       ELSE IF generatedCommentText = ""
       THEN /\ error' = ErrNoComment
            /\ UNCHANGED <<isBulking, logs, progress, loops>>
       ELSE /\ isBulking' = TRUE
            /\ logs' = <<>>
            /\ progress' = 0
            /\ loops' = Append(loops, [targets |-> bulkTargets, i |-> 0])
            /\ UNCHANGED error
    /\ UNCHANGED <<searchResults, isSearching, targetUrl, keywords,
                   generatedCommentText, isGeneratingComment, bulkTargets,
                   fileText, exported, loopLength, loopIndex,
                   storage, isSaving>>

\* variant: disabled={bulkTargets.length === 0}
StartDisabledEmptyOnly == Len(bulkTargets) = 0

\* disabled={isBulking || bulkTargets.length === 0}
StartDisabled == isBulking \/ Len(bulkTargets) = 0

\* a click on the "Mulai Bulk Comment" button
ClickStartBulk == ~StartDisabled /\ startBulk

\* variant: a failed target ends the run (break after the 'fail' entry)
LoopStepAbortOnFail(j) ==
    LET loop == loops[j]
        n == Len(loop.targets)
        target == loop.targets[loop.i + 1]
    IN  /\ \E isSuccess \in BOOLEAN :
              /\ logs' = <<NewLog(target, isSuccess)>> \o logs
              /\ IF loop.i + 1 < n /\ isSuccess
                 THEN /\ loops' = [loops EXCEPT ![j].i = loop.i + 1]
                      /\ UNCHANGED isBulking
                 ELSE /\ loops' = RemoveAt(loops, j)
                      /\ isBulking' = FALSE
        /\ progress' = Progress(loop.i + 1, n)
        /\ UNCHANGED <<searchResults, isSearching, targetUrl, keywords,
                       generatedCommentText, isGeneratingComment, bulkTargets,
                       error, fileText, exported, loopLength, loopIndex,
                   storage, isSaving>>

\* variant: setLogs(prev => [...prev, newLog])
LoopStepAppends(j) ==
    LET loop == loops[j]
        n == Len(loop.targets)
        target == loop.targets[loop.i + 1]
    IN  /\ \E isSuccess \in BOOLEAN :
              logs' = logs \o <<NewLog(target, isSuccess)>>
        /\ progress' = Progress(loop.i + 1, n)
        /\ IF loop.i + 1 < n
           THEN /\ loops' = [loops EXCEPT ![j].i = loop.i + 1]
                /\ UNCHANGED isBulking
           ELSE /\ loops' = RemoveAt(loops, j)
                /\ isBulking' = FALSE
        /\ UNCHANGED <<searchResults, isSearching, targetUrl, keywords,
                       generatedCommentText, isGeneratingComment, bulkTargets,
                       error, fileText, exported, loopLength, loopIndex,
                   storage, isSaving>>

\* variant: setIsBulking(false) after the loop left out
LoopStepKeepsBulking(j) ==
    LET loop == loops[j]
        n == Len(loop.targets)
        target == loop.targets[loop.i + 1]
    IN  /\ \E isSuccess \in BOOLEAN :
              logs' = <<NewLog(target, isSuccess)>> \o logs
        /\ progress' = Progress(loop.i + 1, n)
        /\ IF loop.i + 1 < n
           THEN loops' = [loops EXCEPT ![j].i = loop.i + 1]
           ELSE loops' = RemoveAt(loops, j)
        /\ UNCHANGED <<searchResults, isSearching, targetUrl, keywords,
                       generatedCommentText, isGeneratingComment, bulkTargets,
                       isBulking, error, fileText, exported, loopLength, loopIndex,
                   storage, isSaving>>

\* the 800 ms timer of loop j fires: one iteration of the for loop, and the
\* code after the loop when it was the last one
\* variant: the loop reads the current bulkTargets instead of the list of
\* its own render
LoopStepLiveTargets(j) ==
    LET loop == loops[j]
        n == Len(bulkTargets)
    IN  /\ IF loop.i + 1 <= n
           THEN /\ \E isSuccess \in BOOLEAN :
                      logs' = <<NewLog(bulkTargets[loop.i + 1], isSuccess)>> \o logs
                /\ progress' = Progress(loop.i + 1, n)
           ELSE UNCHANGED <<logs, progress>>
        /\ IF loop.i + 1 < n
           THEN /\ loops' = [loops EXCEPT ![j].i = loop.i + 1]
                /\ UNCHANGED isBulking
           ELSE /\ loops' = RemoveAt(loops, j)
                /\ isBulking' = FALSE
        /\ UNCHANGED <<searchResults, isSearching, targetUrl, keywords,
                       generatedCommentText, isGeneratingComment, bulkTargets,
                       error, fileText, exported, loopLength, loopIndex,
                       storage, isSaving>>

LoopStep(j) ==
    LET loop == loops[j]
        n == Len(loop.targets)
        target == loop.targets[loop.i + 1]
    IN  /\ \E isSuccess \in BOOLEAN :
              logs' = <<NewLog(target, isSuccess)>> \o logs
        /\ progress' = Progress(loop.i + 1, n)
        /\ IF loop.i + 1 < n
           THEN /\ loops' = [loops EXCEPT ![j].i = loop.i + 1]
                /\ UNCHANGED isBulking
           ELSE /\ loops' = RemoveAt(loops, j)
                /\ isBulking' = FALSE
        /\ UNCHANGED <<searchResults, isSearching, targetUrl, keywords,
                       generatedCommentText, isGeneratingComment, bulkTargets,
                       error, fileText, exported, loopLength, loopIndex,
                   storage, isSaving>>

TimerFires == \E j \in 1..Len(loops) : LoopStep(j)

(***************************************************************************)
(* Spec: the application as the user drives it                             *)
(***************************************************************************)
Next ==
    \/ handleSearch
    \/ handleSearchDone
    \/ importFromFinder
    \/ UploadFile
    \/ ClickStartBulk
    \/ TimerFires

Spec == Init /\ [][Next]_vars

(***************************************************************************)
(* FairSpec: Spec with every pending 800 ms timer eventually firing        *)
(***************************************************************************)
FairSpec == Spec /\ WF_vars(TimerFires)

(***************************************************************************)
(* SpecHandler: startBulk called as a function, whatever the button shows. *)
(* The caller keeps the single-run precondition itself: it makes no call   *)
(* that would start a second loop beside a running one.                    *)
(***************************************************************************)
CallStartBulk ==
    /\ isBulking => (Len(bulkTargets) = 0 \/ generatedCommentText = "")
    /\ startBulk

NextHandler ==
    \/ handleSearch
    \/ handleSearchDone
    \/ importFromFinder
    \/ UploadFile
    \/ CallStartBulk
    \/ TimerFires

SpecHandler == Init /\ [][NextHandler]_vars

(***************************************************************************)
(* SpecSettings: the settings tab and the bulk tab, without the Finder     *)
(***************************************************************************)
NextSettings ==
    \/ setTargetUrl
    \/ setKeywords
    \/ handleGenerateCommentText
    \/ handleGenerateCommentDone
    \/ UploadFile
    \/ ClickStartBulk
    \/ TimerFires

SpecSettings == Init /\ [][NextSettings]_vars

(***************************************************************************)
(* SpecPopulate: the two ways to fill the target list, with the Finder's   *)
(* results computed from the grounding chunks of the service and the       *)
(* uploaded file being any text up to MaxFileLen                           *)
(***************************************************************************)
\* chunk.web?.title: absent or empty (<<>>), or a text; chunk.web?.uri
ChunkTitles == {<<>>, <<"a">>}
ChunkUris == {<<"a">>}
Chunks == {[title |-> t, uri |-> u] : t \in ChunkTitles, u \in ChunkUris}
ChunkLists == BoundedSeq(Chunks, MaxResults)

\* chunks.map(chunk => ({title: chunk.web?.title || "Postingan Blog",
\*                       url: chunk.web?.uri || ""}))
searchBlogs(chunks) ==
    [k \in 1..Len(chunks) |->
        [title |-> IF chunks[k].title # <<>> THEN chunks[k].title ELSE Placeholder,
         url   |-> chunks[k].uri]]

SearchBlogsDone ==
    handleSearchDoneWith({searchBlogs(chunks) : chunks \in ChunkLists})

UploadAnyText ==
    \E text \in FileTexts : handleFileUpload(text) /\ UNCHANGED fileText

NextPopulate ==
    \/ handleSearch
    \/ SearchBlogsDone
    \/ importFromFinder
    \/ UploadAnyText

SpecPopulate == Init /\ [][NextPopulate]_vars

(***************************************************************************)
(* SpecStorage: the settings tab with saving, and the page loaded again    *)
(***************************************************************************)
\* saveSettings up to its timer (the button is disabled while isSaving);
\* JSON.stringify of the three fields
saveSettings ==
    /\ ~isSaving
    /\ isSaving' = TRUE
    /\ storage' = [kind |-> "object", url |-> targetUrl, kw |-> keywords,
                   comment |-> generatedCommentText]
    /\ UNCHANGED <<searchResults, isSearching, targetUrl, keywords,
                   generatedCommentText, isGeneratingComment, bulkTargets,
                   isBulking, logs, progress, error, loops, fileText, exported,
                   loopLength, loopIndex>>

\* the 500 ms timer of saveSettings
SaveTimer ==
    /\ isSaving
    /\ isSaving' = FALSE
    /\ UNCHANGED <<searchResults, isSearching, targetUrl, keywords,
                   generatedCommentText, isGeneratingComment, bulkTargets,
                   isBulking, logs, progress, error, loops, fileText, exported,
                   loopLength, loopIndex, storage>>

\* the page is loaded again: the useState defaults, then the
\* settings-loading effect on the stored item
Reload ==
    /\ searchResults' = <<>>
    /\ isSearching' = FALSE
    /\ targetUrl' = LoadSettings(storage).url
    /\ keywords' = LoadSettings(storage).kw
    /\ generatedCommentText' = LoadSettings(storage).comment
    /\ isGeneratingComment' = FALSE
    /\ bulkTargets' = <<>>
    /\ isBulking' = FALSE
    /\ logs' = <<>>
    /\ progress' = 0
    /\ error' = Null
    /\ loops' = <<>>
    /\ isSaving' = FALSE
    /\ UNCHANGED <<fileText, exported, loopLength, loopIndex, storage>>

InitStorage == InitWith(<<>>, AllBlobs, {0})

NextStorage ==
    \/ setTargetUrl
    \/ setKeywords
    \/ handleGenerateCommentText
    \/ handleGenerateCommentDone
    \/ saveSettings
    \/ SaveTimer
    \/ Reload

SpecStorage == InitStorage /\ [][NextStorage]_vars

(***************************************************************************)
(* SpecImport: the file import applied to every text up to MaxFileLen      *)
(***************************************************************************)
ReadFile == \E text \in FileTexts : handleFileUpload(text) /\ fileText' = text

NextImport == ReadFile

SpecImport == Init /\ [][NextImport]_vars

(***************************************************************************)
(* SpecRoundTrip: a Finder list exported, and the exported file imported   *)
(***************************************************************************)
ExportTitles == Str(MaxFieldLen) \ {<<>>}
ExportUrls == Str(MaxFieldLen)
ExportHits == {[title |-> t, url |-> u] : t \in ExportTitles, u \in ExportUrls}
ExportLists == BoundedSeq(ExportHits, MaxExport)

InitRoundTrip ==
    \E results \in ExportLists : InitWith(results, {[kind |-> "absent"]}, {0})

exportToTxt ==
    /\ Len(searchResults) # 0
    /\ exported' = ExportContent(searchResults)
    /\ UNCHANGED <<searchResults, isSearching, targetUrl, keywords,
                   generatedCommentText, isGeneratingComment, bulkTargets,
                   isBulking, logs, progress, error, loops, fileText,
                   loopLength, loopIndex,
                   storage, isSaving>>

\* the user uploads the file exportToTxt downloaded
UploadExported ==
    /\ exported # NoFile
    /\ handleFileUpload(exported)
    /\ fileText' = exported

NextRoundTrip == exportToTxt \/ UploadExported

SpecRoundTrip == InitRoundTrip /\ [][NextRoundTrip]_vars

(***************************************************************************)
(* SpecProgress: the progress values of one run over loopLength targets    *)
(* (lines 187, 189 and 205), for every length up to MaxTotal               *)
(***************************************************************************)
InitProgress == InitWith(<<>>, {[kind |-> "absent"]}, 1..MaxTotal)

\* setProgress(Math.round(((i + 1) / bulkTargets.length) * 100)); i++
ProgressStep ==
    /\ loopIndex < loopLength
    /\ loopIndex' = loopIndex + 1
    /\ progress' = Progress(loopIndex + 1, loopLength)
    /\ UNCHANGED <<searchResults, isSearching, targetUrl, keywords,
                   generatedCommentText, isGeneratingComment, bulkTargets,
                   isBulking, logs, error, loops, fileText, exported, loopLength,
                   storage, isSaving>>

\* the next run over the same list: setProgress(0); i = 0
ProgressRestart ==
    /\ loopIndex = loopLength
    /\ loopIndex' = 0
    /\ progress' = 0
    /\ UNCHANGED <<searchResults, isSearching, targetUrl, keywords,
                   generatedCommentText, isGeneratingComment, bulkTargets,
                   isBulking, logs, error, loops, fileText, exported, loopLength,
                   storage, isSaving>>

NextProgress == ProgressStep \/ ProgressRestart

SpecProgress == InitProgress /\ [][NextProgress]_vars

(***************************************************************************)
(* Properties                                                              *)
(***************************************************************************)
\* the run state a failed precondition must leave alone
RunStateUnchanged ==
    /\ logs' = logs
    /\ progress' = progress
    /\ isBulking' = isBulking
    /\ loops' = loops

\* the step in which a run ends
RunEnds == isBulking /\ ~isBulking'

\* C1: a run over N targets starts from a cleared log and, when it ends, has
\* put exactly N entries into the log and left progress at 100, whatever
\* the success / fail outcomes were.
C1_RunCompletes ==
    [][/\ (~isBulking /\ isBulking') => (logs' = <<>> /\ progress' = 0)
       /\ RunEnds => /\ Len(loops) = 1
                     /\ Len(logs') = Len(loops[1].targets)
                     /\ progress' = 100]_vars

\* a finished run over two targets, one of which failed
C1_Witness ==
    /\ ~isBulking
    /\ Len(loops) = 0
    /\ Len(logs) = 2
    /\ progress = 100
    /\ \E k \in 1..2 : logs[k].status = "fail"

\* C2: targets are processed in list order, one at a time, each once: after
\* i iterations the log holds the urls of the first i targets, newest first,
\* and at the end it is the url list of the targets in reverse.
C2_ListOrder ==
    /\ [](\A j \in 1..Len(loops) :
             /\ Len(logs) = loops[j].i
             /\ \A k \in 1..Len(logs) :
                   logs[k].url = loops[j].targets[loops[j].i - k + 1].url)
    /\ [][RunEnds =>
             /\ Len(loops) = 1
             /\ Len(logs') = Len(loops[1].targets)
             /\ \A k \in 1..Len(logs') :
                   logs'[k].url = loops[1].targets[Len(logs') - k + 1].url]_vars

\* a finished run over two targets with different urls
C2_Witness ==
    /\ ~isBulking
    /\ Len(logs) = 2
    /\ logs[2].url = <<"a">>
    /\ logs[1].url = <<"a", "a">>

\* C3: at most one run is in flight: while isBulking the start button takes
\* no click, so there is never a second loop.
C3_SingleRun ==
    /\ Len(loops) <= 1
    /\ isBulking <=> Len(loops) = 1
    /\ isBulking => ~ENABLED ClickStartBulk

\* a run in progress while both preconditions of startBulk hold
C3_Witness ==
    /\ isBulking
    /\ Len(loops) = 1
    /\ loops[1].i >= 1
    /\ Len(bulkTargets) > 0
    /\ generatedCommentText # ""

\* C4: startBulk with an empty target list reports the empty-list error and
\* leaves the log, progress and isBulking as they were.
C4_EmptyTargetList ==
    [][(Len(bulkTargets) = 0 /\ startBulk) =>
          (error' = ErrEmptyTargets /\ RunStateUnchanged)]_vars

\* the empty-list error reported with the log of an earlier run still there
C4_Witness ==
    /\ error = ErrEmptyTargets
    /\ Len(bulkTargets) = 0
    /\ Len(logs) > 0
    /\ progress = 100

\* C5 as stated: startBulk with an empty comment text reports the
\* missing-comment error for every target list, the empty one included.
C5_MissingCommentAnySize ==
    [][(generatedCommentText = "" /\ startBulk) =>
          (error' = ErrNoComment /\ RunStateUnchanged)]_vars

\* C5 amended: startBulk with an empty comment text reports the
\* missing-comment error when the target list is not empty and the
\* empty-list error when it is; either way the run state is left alone.
C5_MissingCommentNonEmptyList ==
    [][(generatedCommentText = "" /\ startBulk) =>
          /\ error' = IF Len(bulkTargets) = 0 THEN ErrEmptyTargets ELSE ErrNoComment
          /\ RunStateUnchanged]_vars

\* the missing-comment error reported for a list of two targets
C5_Witness ==
    /\ error = ErrNoComment
    /\ generatedCommentText = ""
    /\ Len(bulkTargets) = 2
    /\ ~isBulking

\* C6: progress is below 100 until the last target is done.
C6_HundredOnlyAtEnd == loopIndex < loopLength => progress < 100

\* C7 as stated: after k of N targets progress is k / N * 100 rounded to the
\* nearest integer, halves up.
C7_RoundHalfUp ==
    /\ progress \in 0..100
    /\ progress = RoundHalfUp(loopIndex, loopLength)

\* C7 amended: progress is 0 at the start of a run, after k of N targets it
\* is an integer nearest to k / N * 100 (an exact half may go either way),
\* it stays within 0..100 and never decreases within a run.
C7_NearestInteger ==
    /\ [](/\ progress \in 0..100
          /\ loopIndex = 0 => progress = 0
          /\ (2 * loopLength * progress - 200 * loopIndex)
                 \in (0 - loopLength)..loopLength)
    /\ [][loopIndex' > loopIndex => progress' >= progress]_vars

\* 23 of 40 targets done: 57.5 percent, shown as 57
C7_Witness ==
    /\ loopLength = 40
    /\ loopIndex = 23
    /\ progress = 57

\* C8: a list without '|' in its titles, exported and imported again, is the
\* target list.
C8_RoundTrip ==
    (/\ fileText # NoFile
     /\ \A k \in 1..Len(searchResults) :
           \A c \in 1..Len(searchResults[k].title) : searchResults[k].title[c] # "|")
        => bulkTargets = searchResults

\* C9: a non-blank line without '|' becomes a target with the line as url
\* and the placeholder as title.
C9_NoDelimiterLine ==
    fileText # NoFile =>
        LET lines == FilterTrimTruthy(Split(fileText, "\n"))
        IN  /\ Len(bulkTargets) = Len(lines)
            /\ \A k \in 1..Len(lines) :
                  (\A c \in 1..Len(lines[k]) : lines[k][c] # "|")
                      => bulkTargets[k] = [title |-> Placeholder, url |-> lines[k]]

\* C10: isBulking is true as long as a loop is pending, every run ends, and
\* isBulking turns false in the very step that logs the last target.
C10_RunTerminates ==
    /\ [](Len(loops) > 0 => isBulking)
    /\ isBulking ~> ~isBulking
    /\ [][RunEnds =>
             /\ Len(loops) = 1
             /\ loops[1].i + 1 = Len(loops[1].targets)
             /\ Len(loops') = 0
             /\ Len(logs') = Len(logs) + 1
             /\ logs'[1].url = loops[1].targets[Len(loops[1].targets)].url]_vars

\* a run over a single target has ended
C10_Witness ==
    /\ ~isBulking
    /\ Len(loops) = 0
    /\ Len(logs) = 1
    /\ progress = 100


\* C11 as stated: importFromFinder makes the target list equal to the
\* Finder list, whatever that list is, the empty one included.
C11_ImportReplacesAlways ==
    [][importFromFinder => bulkTargets' = searchResults]_vars

\* C11 amended: importFromFinder makes the target list equal to a non-empty
\* Finder list; for the empty Finder list it reports an error and leaves the
\* target list as it was.
C11_ImportReplacesNonEmpty ==
    [][importFromFinder =>
          IF Len(searchResults) = 0
          THEN bulkTargets' = bulkTargets /\ error' = ErrNoSearchYet
          ELSE bulkTargets' = searchResults /\ error' = error]_vars

\* the target list is a Finder list of two hits
C11_Witness ==
    /\ Len(searchResults) = 2
    /\ bulkTargets = searchResults


\* C12: however the target list was filled, no target has an empty title.
C12_TitleNeverEmpty ==
    \A k \in 1..Len(bulkTargets) : bulkTargets[k].title # <<>>

\* a target list holding a target that got the placeholder title, next to
\* Finder results that got it too
C12_Witness ==
    /\ \E k \in 1..Len(bulkTargets) : bulkTargets[k].title = Placeholder
    /\ \E k \in 1..Len(searchResults) : searchResults[k].title = Placeholder


\* C13: the step that starts a run empties the log, and while the run lasts
\* the log holds one entry per target processed so far, each with the url
\* of a target of that run, and nothing else.
C13_LogClearedAtStart ==
    /\ [][(~isBulking /\ isBulking') => (logs' = <<>> /\ Len(loops') = 1)]_vars
    /\ [](isBulking =>
             /\ Len(loops) = 1
             /\ Len(logs) = loops[1].i
             /\ Len(logs) < Len(loops[1].targets)
             /\ \A k \in 1..Len(logs) :
                   \E t \in 1..Len(loops[1].targets) :
                       logs[k].url = loops[1].targets[t].url)

\* a run over two targets with its first target logged
C13_Witness ==
    /\ isBulking
    /\ Len(loops) = 1
    /\ Len(loops[1].targets) = 2
    /\ loops[1].i = 1
    /\ Len(logs) = 1


\* C14: when the last comment generation was rejected, or the comment text
\* is empty, no bulk run starts.
C14_NoRunWithoutComment ==
    [][((error = ErrGenerate \/ generatedCommentText = "") /\ ~isBulking)
          => ~isBulking']_vars


\* the stored item is an object with the three fields, all strings
ThreeStrings(b) ==
    /\ b.kind = "object"
    /\ \A v \in {b.url, b.kw, b.comment} : v \notin {Undefined, NotAString}

\* C15: loading an item that is not an object with three string fields
\* leaves the three settings empty, and loading one that is gives the three
\* strings.
C15_LoadAllOrNothing ==
    [][Reload =>
          IF ThreeStrings(storage)
          THEN /\ targetUrl' = storage.url
               /\ keywords' = storage.kw
               /\ generatedCommentText' = storage.comment
          ELSE /\ targetUrl' = ""
               /\ keywords' = ""
               /\ generatedCommentText' = ""]_vars


\* C16: a run works on the target list as it was when the run started: the
\* list the loop holds is the bulkTargets of the starting step and stays the
\* same until the run ends; a step that replaces bulkTargets during the run
\* changes neither the log nor the progress nor the loop; every entry the
\* run logs is the next target of the original list, with progress computed
\* over the original length; the run ends with one entry per original
\* target and progress 100.
C16_SnapshotRun ==
    /\ [][(~isBulking /\ isBulking') =>
             /\ Len(loops') = 1
             /\ loops'[1].targets = bulkTargets
             /\ loops'[1].i = 0]_vars
    /\ [][(isBulking /\ isBulking') =>
             /\ Len(loops) = 1
             /\ Len(loops') = 1
             /\ loops'[1].targets = loops[1].targets]_vars
    /\ [][(isBulking /\ bulkTargets' # bulkTargets) =>
             /\ isBulking'
             /\ loops' = loops
             /\ logs' = logs
             /\ progress' = progress]_vars
    /\ [][(isBulking /\ logs' # logs) =>
             /\ Len(logs) < Len(loops[1].targets)
             /\ Len(logs') = Len(logs) + 1
             /\ logs'[1].url = loops[1].targets[Len(logs) + 1].url
             /\ progress' = Progress(Len(logs) + 1, Len(loops[1].targets))]_vars
    /\ [][RunEnds =>
             /\ logs' # logs
             /\ Len(logs') = Len(loops[1].targets)
             /\ progress' = 100]_vars

\* a run over two targets has logged the first one, and the target list
\* has been replaced by a list of another length
C16_Witness ==
    /\ isBulking
    /\ Len(loops) = 1
    /\ Len(loops[1].targets) = 2
    /\ loops[1].i = 1
    /\ Len(logs) = 1
    /\ Len(bulkTargets) # 2
    /\ bulkTargets # loops[1].targets

====
